---- MODULE Spec2Model ----
(***************************************************************************)
(* State-machine model of the posts backend in src/main.py: the post       *)
(* repository (data/posts), the two blob directories (data/uploads,        *)
(* data/images), the lazily created search client, and the request         *)
(* handlers.  All handlers are coroutines on one event loop: a handler     *)
(* runs without interruption from one await to the next, so a request      *)
(* position that is not an await point blocks every other request.         *)
(*                                                                         *)
(* Text is modelled as sequences of one-character strings.  "K" stands for *)
(* any character outside [A-Za-z0-9._-] other than "/" and " " (a Hangul   *)
(* syllable, say).  Literal fragments of generated text are single tokens. *)
(***************************************************************************)
EXTENDS Integers, Sequences, FiniteSets, TLC

VARIABLES
    posts,      \* data/posts: post id -> persisted record (domain = stored ids)
    uploads,    \* data/uploads: file name -> size in bytes
    images,     \* data/images: file name -> size in bytes
    es_client,  \* the global client handle: "none" or "client"
    esUp,       \* environment: whether the search engine answers
    esIndex,    \* the search engine's "posts" index: post id -> indexed document
    pc,         \* position of each request slot
    loc,        \* local variables of the handler running in each slot
    response,   \* the response most recently handed to a caller
    served,     \* history: successful get-post responses per id since its creation
    creates     \* history: create-post requests accepted so far

vars == <<posts, uploads, images, es_client, esUp, esIndex, pc, loc, response, served,
          creates>>

-----------------------------------------------------------------------------
\* Bounds of the model.

MaxReq == 2       \* request slots (requests in flight at once)
MaxViews == 2     \* get-post is not issued for a post that has this many views
MaxFiles == 2     \* attachments offered to one create-post
MaxImages == 1    \* images offered to one create-post
MaxCreates == 2   \* create-post requests accepted in one run (posts without uploads)
MaxBlobCreates == 1   \* create-post requests accepted in one run (posts with uploads)
MaxName == 3      \* characters of a file name after its run of padding

ReqIds == 1..MaxReq
PostIds == {<<"p">>, <<"q">>}            \* values of uuid4 hex[:9]
FileIds == {<<"1">>, <<"2">>}            \* values of str(uuid4)[:8]
ImageIds == {<<"7">>, <<"8">>}           \* values of str(uuid4)[:12]

\* Uploaded files as the caller sends them.  File names: plain, with a path
\* separator, blank; for images: non-ASCII stem, no extension.
UploadItems ==
    { [filename |-> <<"a", ".", "t">>, size |-> 2048],
      [filename |-> <<"d", "/", "e">>, size |-> 512],
      [filename |-> <<" ">>, size |-> 512] }
ImageItems ==
    { [filename |-> <<"K", ".", "p">>, content_type |-> "image/png", size |-> 2048],
      [filename |-> <<"d">>, content_type |-> "image/bmp", size |-> 512],
      [filename |-> <<"d">>, content_type |-> "text/plain", size |-> 512] }
\* Title and body of a post.
Texts ==
    { [title |-> <<"B", "u">>, content |-> <<"x">>],
      [title |-> <<"t", "o">>, content |-> <<"b", "U">>] }
Queries == { <<"b", "u">>, <<"T">>, <<"7">> }
IncludeLevels == {"none", "metadata", "files"}
BaseUrls == { <<>>, <<"h", "/">> }

\* File names handed to the sanitizer: a run of "a" around the length limit
\* followed by up to MaxName characters (allowed, non-ASCII, dot, path
\* separator, blank).
NameChars == {"a", "K", ".", "/", " "}
Pad(n) == [i \in 1..n |-> "a"]

-----------------------------------------------------------------------------
\* Text helpers (Python str operations used by the source).

Lower(c) ==
    CASE c = "B" -> "b"
      [] c = "U" -> "u"
      [] c = "T" -> "t"
      [] c = "K" -> "K"
      [] OTHER -> c

LowerStr(s) == [i \in 1..Len(s) |-> Lower(s[i])]

StartsWith(s, prefix) ==
    /\ Len(prefix) <= Len(s)
    /\ SubSeq(s, 1, Len(prefix)) = prefix

Contains(s, sub) ==
    \E i \in 0..(Len(s) - Len(sub)) : SubSeq(s, i + 1, i + Len(sub)) = sub

\* Truth value of "filename and filename.strip()".
NonBlank(s) == \E i \in 1..Len(s) : s[i] # " "

LastIndexOf(s, c) ==
    IF \E i \in 1..Len(s) : s[i] = c
    THEN CHOOSE i \in 1..Len(s) : s[i] = c /\ \A j \in (i + 1)..Len(s) : s[j] # c
    ELSE 0

\* os.path.splitext: the extension starts at the last dot of the last path
\* component, unless only dots precede it in that component.
SplitAt(s) ==
    LET sep == LastIndexOf(s, "/")
        dot == LastIndexOf(s, ".")
    IN  IF dot > sep /\ (\E i \in (sep + 1)..(dot - 1) : s[i] # ".")
        THEN dot
        ELSE Len(s) + 1

SplitRoot(s) == SubSeq(s, 1, SplitAt(s) - 1)
SplitExt(s) == SubSeq(s, SplitAt(s), Len(s))

\* re.sub(r'[^a-zA-Z0-9._-]', '', name) keeps exactly these.
AllowedChar(c) == c \in {"a", "b", "d", "e", "g", "i", "m", "p", "t", "u", "x",
                         "B", "U", "T", "1", "2", "7", "8", ".", "_", "-"}

ImageLiteral == <<"i", "m", "a", "g", "e">>

\* clean_filename without the length limit of lines 66-67.
clean_filename_unlimited(filename) ==
    IF filename = <<>> THEN ImageLiteral
    ELSE LET kept == SelectSeq(SplitRoot(filename), AllowedChar)
         IN  (IF kept = <<>> THEN ImageLiteral ELSE kept) \o SplitExt(filename)

MaxStem == 50

clean_filename(filename) ==
    IF filename = <<>> THEN ImageLiteral
    ELSE LET name == SplitRoot(filename)
             ext == SplitExt(filename)
             kept == SelectSeq(name, AllowedChar)
             clean_name == IF kept = <<>> THEN ImageLiteral ELSE kept
             cut == IF Len(clean_name) > MaxStem THEN SubSeq(clean_name, 1, MaxStem)
                    ELSE clean_name
         IN  cut \o ext

-----------------------------------------------------------------------------
\* Records and the post repository.

NoLocals == [h |-> "none"]
NoResponse == [op |-> "none", status |-> 0]

\* A record written by an older revision: no uploaded_images field.
LegacyPost ==
    [id |-> <<"p">>, title |-> <<"t", "o">>, content |-> <<"x">>, views |-> 0,
     attachments |-> <<>>]

Put(f, k, v) == [x \in (DOMAIN f) \cup {k} |-> IF x = k THEN v ELSE f[x]]

save_post_to_file(repo, post_id, post_data) == Put(repo, post_id, post_data)

Stored(post_id) == post_id \in DOMAIN posts

\* get_all_posts: os.listdir order is unspecified and every postDate of the
\* model is the same day, so the listing is kept as the set of records.
get_all_posts == {posts[i] : i \in DOMAIN posts}

\* The read-side default of lines 333-334 and 343-344.
WithImagesField(post) ==
    IF "uploaded_images" \in DOMAIN post THEN post
    ELSE Put(post, "uploaded_images", <<>>)

\* A get_post that awaited its file read: suspended between load and save.
SuspendedAfterLoad(p) == p \in {"idle", "c_store", "g_loaded"}

\* Positions at which a coroutine is suspended in an await (or not started):
\* only there can another request run.  (The framework's sending of a zip
\* response reads nothing but that request's own temporary directory, so it
\* is taken as following the handler's return directly.)
Suspended(p) == p \in {"idle", "c_store"}

Runnable(r) == \A o \in ReqIds \ {r} : Suspended(pc[o])

\* A new request takes the first free slot (slots are interchangeable).
Accept(r) ==
    /\ pc[r] = "idle"
    /\ \A o \in ReqIds : o < r => pc[o] # "idle"
    /\ Runnable(r)

Finish(r) ==
    /\ pc' = [pc EXCEPT ![r] = "idle"]
    /\ loc' = [loc EXCEPT ![r] = NoLocals]

-----------------------------------------------------------------------------
\* The search client.

\* get_es_client: returns the handle, connecting first when there is none.
get_es_client(client, up) ==
    IF client = "none" THEN (IF up THEN "client" ELSE "none") ELSE client

\* index_post_to_es: the index after mirroring post_data; errors are swallowed.
index_post_to_es(index, client, up, post_data) ==
    IF get_es_client(client, up) = "client" /\ up
    THEN Put(index, post_data.id, post_data)
    ELSE index

\* index_post_to_es with the es.index call outside any try block.
IndexRaisesWhenDown(client, up) == get_es_client(client, up) = "client" /\ ~up

\* Whether index_post_to_es raises into its caller: the try/except of lines
\* 196-199 (and of get_es_client) lets nothing out.
IndexRaises(client, up) == FALSE

EsToggle ==
    /\ \A r \in ReqIds : Suspended(pc[r])
    /\ esUp' = ~esUp
    /\ UNCHANGED <<posts, uploads, images, es_client, esIndex, pc, loc, response, served, creates>>

-----------------------------------------------------------------------------
\* GET /api/posts/{post_id}

SkipIncrement(post) == post

DecrementViews(post) == [post EXCEPT !.views = @ - 1]

IncrementViews(post) == [post EXCEPT !.views = @ + 1]

GetLoad(r, post_id) ==
    /\ Accept(r)
    /\ IF ~Stored(post_id)
       THEN /\ response' = [op |-> "get_post", status |-> 404, id |-> post_id]
            /\ UNCHANGED <<posts, uploads, images, es_client, esUp, esIndex, pc, loc, served, creates>>
       ELSE /\ posts[post_id].views < MaxViews
            /\ pc' = [pc EXCEPT ![r] = "g_loaded"]
            /\ loc' = [loc EXCEPT ![r] = [h |-> "get_post", post_id |-> post_id,
                                          post |-> posts[post_id]]]
            /\ UNCHANGED <<posts, uploads, images, es_client, esUp, esIndex, response, served, creates>>

GetIncrement(r) ==
    /\ pc[r] = "g_loaded"
    /\ Runnable(r)
    /\ pc' = [pc EXCEPT ![r] = "g_incremented"]
    /\ loc' = [loc EXCEPT ![r].post = IncrementViews(WithImagesField(@))]
    /\ UNCHANGED <<posts, uploads, images, es_client, esUp, esIndex, response, served, creates>>

GetSave(r) ==
    /\ pc[r] = "g_incremented"
    /\ Runnable(r)
    /\ posts' = save_post_to_file(posts, loc[r].post_id, loc[r].post)
    /\ response' = [op |-> "get_post", status |-> 200, id |-> loc[r].post_id,
                    body |-> loc[r].post]
    /\ served' = [served EXCEPT ![loc[r].post_id] = @ + 1]
    /\ Finish(r)
    /\ UNCHANGED <<uploads, images, es_client, esUp, esIndex, creates>>

-----------------------------------------------------------------------------
\* POST /api/posts

KB == 1024

\* The human-readable size of lines 237-243, as <number, unit>.
SizeStr(file_size) ==
    IF file_size < KB THEN [n |-> file_size, unit |-> "B"]
    ELSE IF file_size < KB * KB THEN [n |-> file_size \div KB, unit |-> "KB"]
    ELSE [n |-> file_size \div (KB * KB), unit |-> "MB"]

SeqsUpTo(S, n) == UNION {[1..k -> S] : k \in 0..n}

AcceptFile(file) == NonBlank(file.filename)

AllowedCreateTypes == {"image/jpeg", "image/jpg", "image/png", "image/gif",
                       "image/webp", "image/bmp"}

AcceptImage(image) ==
    /\ NonBlank(image.filename)
    /\ image.content_type \in AllowedCreateTypes

\* The loop runs synchronously over the items it skips, up to the next item
\* it stores (the next await).
RECURSIVE SkipFiles(_)
SkipFiles(items) ==
    IF items = <<>> \/ AcceptFile(Head(items)) THEN items
    ELSE SkipFiles(Tail(items))

RECURSIVE SkipImages(_)
SkipImages(items) ==
    IF items = <<>> \/ AcceptImage(Head(items)) THEN items
    ELSE SkipImages(Tail(items))

DownloadUrl(file_id) == <<"/api/attachments/">> \o file_id \o <<"/download">>
ImageUrl(saved_filename) == <<"/static/images/">> \o saved_filename

AttachmentRecord(file_id, file) ==
    [id |-> file_id,
     name |-> clean_filename(file.filename),
     size |-> SizeStr(file.size),
     downloadUrl |-> DownloadUrl(file_id),
     original_filename |-> file.filename]

SavedFileName(file_id, file) == file_id \o SplitExt(clean_filename(file.filename))

SavedImageName(image_id, image) ==
    LET ext == SplitExt(clean_filename(image.filename))
    IN  image_id \o (IF ext = <<>> THEN <<".", "j", "p", "g">> ELSE ext)

ImageRecord(image_id, image) ==
    [id |-> image_id,
     filename |-> clean_filename(image.filename),
     url |-> ImageUrl(SavedImageName(image_id, image)),
     original_filename |-> image.filename]

ImageTag(img) ==
    <<"<img src=\"">> \o img.url \o <<"\" alt=\"">> \o img.filename
        \o <<"\" style=\"max-width: 100%; height: auto;\">">>

RECURSIVE JoinTags(_)
JoinTags(imgs) ==
    IF imgs = <<>> THEN <<>> ELSE ImageTag(Head(imgs)) \o JoinTags(Tail(imgs))

ImagesHtml(imgs) ==
    IF imgs = <<>> THEN <<>> ELSE <<"<div>">> \o JoinTags(imgs) \o <<"</div>">>

\* post_data of lines 305-318, from the handler's locals.
PostData(l) ==
    [id |-> l.post_id,
     title |-> l.title,
     content |-> l.content \o ImagesHtml(l.uploaded_images),
     views |-> 0,
     attachments |-> l.attachments,
     uploaded_images |-> l.uploaded_images]

\* The tail with the mirror placed before the save.
IndexBeforeSave == <<"c_index", "c_save", "c_respond">>

\* The synchronous tail of create_post, lines 320-327, in program order.
CreateTail == <<"c_save", "c_index", "c_respond">>

TailNext(p) ==
    LET i == CHOOSE k \in 1..Len(CreateTail) : CreateTail[k] = p
    IN  IF i = Len(CreateTail) THEN "idle" ELSE CreateTail[i + 1]

AfterItems(files, imgs) ==
    IF files # <<>> \/ imgs # <<>> THEN "c_store" ELSE CreateTail[1]

\* What a blob write can do: succeed, or raise before anything is written.
WriteOutcomes == {"ok", "open_error"}

WriteBlob(dir, name, size, outcome) ==
    IF outcome = "ok" THEN Put(dir, name, size) ELSE dir

CreateBegin(r, limit, post_id, text, files, imgs) ==
    /\ Accept(r)
    /\ creates < limit
    /\ creates' = creates + 1
    /\ LET fs == SkipFiles(files)
           is == SkipImages(imgs)
       IN  /\ loc' = [loc EXCEPT ![r] =
                        [h |-> "create_post", post_id |-> post_id, title |-> text.title,
                         content |-> text.content, files |-> fs, images |-> is,
                         attachments |-> <<>>, uploaded_images |-> <<>>]]
           /\ pc' = [pc EXCEPT ![r] = AfterItems(fs, is)]
    /\ UNCHANGED <<posts, uploads, images, es_client, esUp, esIndex, response, served>>

CreateStoreFile(r, file_id, outcome) ==
    /\ pc[r] = "c_store"
    /\ Runnable(r)
    /\ loc[r].files # <<>>
    /\ LET file == Head(loc[r].files)
           rest == SkipFiles(Tail(loc[r].files))
       IN  /\ uploads' = WriteBlob(uploads, SavedFileName(file_id, file), file.size, outcome)
           /\ loc' = [loc EXCEPT ![r].files = rest,
                                 ![r].attachments =
                                     IF outcome = "ok"
                                     THEN Append(@, AttachmentRecord(file_id, file))
                                     ELSE @]
           /\ pc' = [pc EXCEPT ![r] = AfterItems(rest, loc[r].images)]
    /\ UNCHANGED <<posts, images, es_client, esUp, esIndex, response, served, creates>>

CreateStoreImage(r, image_id, outcome) ==
    /\ pc[r] = "c_store"
    /\ Runnable(r)
    /\ loc[r].files = <<>>
    /\ loc[r].images # <<>>
    /\ LET image == Head(loc[r].images)
           rest == SkipImages(Tail(loc[r].images))
       IN  /\ images' = WriteBlob(images, SavedImageName(image_id, image), image.size, outcome)
           /\ loc' = [loc EXCEPT ![r].images = rest,
                                 ![r].uploaded_images =
                                     IF outcome = "ok"
                                     THEN Append(@, ImageRecord(image_id, image))
                                     ELSE @]
           /\ pc' = [pc EXCEPT ![r] = AfterItems(<<>>, rest)]
    /\ UNCHANGED <<posts, uploads, es_client, esUp, esIndex, response, served, creates>>

CreateSave(r) ==
    /\ pc[r] = "c_save"
    /\ Runnable(r)
    /\ posts' = save_post_to_file(posts, loc[r].post_id, PostData(loc[r]))
    /\ served' = [served EXCEPT ![loc[r].post_id] = 0]
    /\ pc' = [pc EXCEPT ![r] = TailNext("c_save")]
    /\ UNCHANGED <<uploads, images, es_client, esUp, esIndex, loc, response, creates>>

CreateIndex(r) ==
    /\ pc[r] = "c_index"
    /\ Runnable(r)
    /\ es_client' = get_es_client(es_client, esUp)
    /\ esIndex' = index_post_to_es(esIndex, es_client, esUp, PostData(loc[r]))
    /\ IF IndexRaises(es_client, esUp)
       THEN /\ response' = [op |-> "create_post", status |-> 500, id |-> loc[r].post_id]
            /\ Finish(r)
       ELSE /\ pc' = [pc EXCEPT ![r] = TailNext("c_index")]
            /\ UNCHANGED <<loc, response>>
    /\ UNCHANGED <<posts, uploads, images, esUp, served, creates>>

CreateRespond(r) ==
    /\ pc[r] = "c_respond"
    /\ Runnable(r)
    /\ response' = [op |-> "create_post", status |-> 200, id |-> loc[r].post_id,
                    body |-> PostData(loc[r])]
    /\ pc' = [pc EXCEPT ![r] = TailNext("c_respond")]
    /\ loc' = [loc EXCEPT ![r] = IF TailNext("c_respond") = "idle" THEN NoLocals ELSE @]
    /\ UNCHANGED <<posts, uploads, images, es_client, esUp, esIndex, served, creates>>

-----------------------------------------------------------------------------
\* GET /api/posts, GET /api/search, GET /api/attachments/{file_id}/download,
\* POST /api/upload-image: each runs from start to finish without an await
\* that another request could observe.

\* A listing that writes its defaulted records back.
get_posts_persisting ==
    /\ \A r \in ReqIds : Suspended(pc[r])
    /\ response' = [op |-> "get_posts", status |-> 200,
                    body |-> {WithImagesField(p) : p \in get_all_posts}]
    /\ posts' = [i \in DOMAIN posts |-> WithImagesField(posts[i])]
    /\ UNCHANGED <<uploads, images, es_client, esUp, esIndex, pc, loc, served, creates>>

get_posts ==
    /\ \A r \in ReqIds : Suspended(pc[r])
    /\ response' = [op |-> "get_posts", status |-> 200,
                    body |-> {WithImagesField(p) : p \in get_all_posts}]
    /\ UNCHANGED <<posts, uploads, images, es_client, esUp, esIndex, pc, loc, served, creates>>

\* The fallback scan of lines 637-643.
FallbackScan(q) ==
    {WithImagesField(p) : p \in
        {x \in get_all_posts : \/ Contains(LowerStr(x.title), LowerStr(q))
                               \/ Contains(LowerStr(x.content), LowerStr(q))}}

\* What es.search can return: the engine's own choice among its documents.
EsHits == SUBSET {esIndex[i] : i \in DOMAIN esIndex}

SearchBodies(q, client, up) ==
    IF client = "none" THEN {FallbackScan(q)}
    ELSE IF up THEN EsHits
    ELSE {{}}

search_posts(q) ==
    /\ \A r \in ReqIds : Suspended(pc[r])
    /\ es_client' = get_es_client(es_client, esUp)
    /\ \E body \in SearchBodies(q, es_client', esUp) :
          response' = [op |-> "search", status |-> 200, q |-> q, body |-> body,
                       sink |-> (es_client' = "client" /\ esUp)]
    /\ UNCHANGED <<posts, uploads, images, esUp, esIndex, pc, loc, served, creates>>

\* At most one stored blob is unreadable during one export.
BadBlobs == {{}} \cup {{f} : f \in (DOMAIN uploads) \cup (DOMAIN images)}

\* A scan that compares whole names instead of prefixes.
MatchesWholeName(dir, prefix) == {f \in DOMAIN dir : f = prefix}

Matches(dir, prefix) == {f \in DOMAIN dir : StartsWith(f, prefix)}

\* Posts holding an attachment with this id (lines 367-373): the last one in
\* listing order names the download.
Owners(file_id) ==
    {p \in get_all_posts : \E i \in 1..Len(p.attachments) : p.attachments[i].id = file_id}

OwnerName(p, file_id) ==
    LET i == CHOOSE k \in 1..Len(p.attachments) :
                 /\ p.attachments[k].id = file_id
                 /\ \A j \in 1..(k - 1) : p.attachments[j].id # file_id
    IN  p.attachments[i].original_filename

download_attachment(file_id) ==
    /\ \A r \in ReqIds : Suspended(pc[r])
    /\ IF Matches(uploads, file_id) = {}
       THEN response' = [op |-> "download", status |-> 404, id |-> file_id]
       ELSE \E saved_filename \in Matches(uploads, file_id) :
              \E original_filename \in
                    IF Owners(file_id) = {} THEN {saved_filename}
                    ELSE {OwnerName(p, file_id) : p \in Owners(file_id)} :
                 response' = [op |-> "download", status |-> 200, id |-> file_id,
                              file |-> saved_filename, filename |-> original_filename]
    /\ UNCHANGED <<posts, uploads, images, es_client, esUp, esIndex, pc, loc, served, creates>>

AllowedUploadTypes == {"image/jpeg", "image/jpg", "image/png", "image/gif", "image/webp"}

UploadedName(image_id, image) ==
    image_id \o (IF image.filename = <<>> THEN <<".", "j", "p", "g">>
                 ELSE SplitExt(image.filename))

upload_image(image, image_id, outcome) ==
    /\ \A r \in ReqIds : Suspended(pc[r])
    /\ IF image.content_type \notin AllowedUploadTypes
       THEN /\ response' = [op |-> "upload_image", status |-> 400]
            /\ UNCHANGED images
       ELSE /\ images' = WriteBlob(images, UploadedName(image_id, image), image.size, outcome)
            /\ response' = IF outcome = "ok"
                           THEN [op |-> "upload_image", status |-> 200, imageId |-> image_id,
                                 imageUrl |-> ImageUrl(UploadedName(image_id, image))]
                           ELSE [op |-> "upload_image", status |-> 500]
    /\ UNCHANGED <<posts, uploads, es_client, esUp, esIndex, pc, loc, served, creates>>

-----------------------------------------------------------------------------
\* GET /api/export/posts

NoPath == <<>>      \* Python None where a path is expected
UPLOADS_DIR == <<"data/uploads/">>
IMAGES_DIR == <<"data/images/">>

\* os.listdir order is unspecified: `first` says, for each identifier, which
\* of the matching entries the scan of lines 183-185 meets first.
FirstMatches(dir, ids) ==
    {f \in [ids -> (DOMAIN dir) \cup {NoPath}] :
        \A i \in ids : IF Matches(dir, i) = {} THEN f[i] = NoPath
                       ELSE f[i] \in Matches(dir, i)}

find_file_by_prefix(directory, first, prefix) ==
    IF first[prefix] = NoPath THEN NoPath ELSE directory \o first[prefix]

\* "x".rstrip('/')
RECURSIVE RStripSlash(_)
RStripSlash(u) ==
    IF u # <<>> /\ u[Len(u)] = "/" THEN RStripSlash(SubSeq(u, 1, Len(u) - 1)) ELSE u

build_absolute_url(relative_url, base_url) ==
    IF base_url = <<>> THEN relative_url ELSE RStripSlash(base_url) \o relative_url

\* mimetypes.guess_type on the extensions of the model (".t" a text file,
\* ".p" and ".jpg" images), with the "application/octet-stream" default.
MimeType(path) ==
    LET ext == SplitExt(path)
    IN  CASE ext = <<".", "t">> -> "text/plain"
          [] ext = <<".", "p">> -> "image/png"
          [] ext = <<".", "j", "p", "g">> -> "image/jpeg"
          [] OTHER -> "application/octet-stream"

PostImages(post) ==
    IF "uploaded_images" \in DOMAIN post THEN post.uploaded_images ELSE <<>>

\* The part of lines 411-433 / 446-468 added to an item: dir is the blob
\* directory, bad the blobs whose read raises.
FileDetails(include_files, dir, file_path, name, bad) ==
    IF include_files = "none" THEN <<>>
    ELSE IF file_path = NoPath THEN [path |-> NoPath]
    ELSE LET meta == [path |-> file_path, mime_type |-> MimeType(file_path),
                      size_bytes |-> dir[name]]
         IN  IF include_files = "files" /\ name \notin bad
             THEN [content_base64 |-> <<"b64", dir[name]>>, content_encoding |-> "base64"]
                      @@ meta
             ELSE meta

JsonAttachment(att, include_files, base_url, first, bad) ==
    FileDetails(include_files, uploads,
                IF include_files = "none" THEN NoPath
                ELSE find_file_by_prefix(UPLOADS_DIR, first, att.id),
                IF include_files = "none" THEN NoPath ELSE first[att.id], bad)
    @@ [id |-> att.id, name |-> att.name, size_display |-> att.size,
        download_url |-> build_absolute_url(att.downloadUrl, base_url)]

JsonImage(img, include_files, base_url, first, bad) ==
    FileDetails(include_files, images,
                IF include_files = "none" THEN NoPath
                ELSE find_file_by_prefix(IMAGES_DIR, first, img.id),
                IF include_files = "none" THEN NoPath ELSE first[img.id], bad)
    @@ [id |-> img.id, filename |-> img.filename,
        url |-> build_absolute_url(img.url, base_url)]

MapSeq(s, F(_)) == [i \in 1..Len(s) |-> F(s[i])]

\* One entry of "posts" in the JSON export (content_text and the metadata
\* fields other than views are not modelled).
JsonPost(post, include_files, base_url, firstU, firstI, bad) ==
    [id |-> post.id, title |-> post.title, content_html |-> post.content,
     views |-> post.views,
     attachments |-> MapSeq(post.attachments,
                            LAMBDA a : JsonAttachment(a, include_files, base_url, firstU, bad)),
     images |-> MapSeq(PostImages(post),
                       LAMBDA g : JsonImage(g, include_files, base_url, firstI, bad))]

ExportEnvelope(include_files, entries) ==
    [include_files |-> include_files, count |-> Cardinality(DOMAIN entries),
     posts |-> entries]

export_json(include_files, base_url, firstU, firstI, bad) ==
    /\ \A r \in ReqIds : Suspended(pc[r])
    /\ response' = [op |-> "export", format |-> "json", status |-> 200,
                    include_files |-> include_files, base_url |-> base_url,
                    body |-> ExportEnvelope(include_files,
                               [i \in DOMAIN posts |->
                                  JsonPost(posts[i], include_files, base_url,
                                           firstU, firstI, bad)])]
    /\ UNCHANGED <<posts, uploads, images, es_client, esUp, esIndex, pc, loc, served, creates>>

\* ---- the zip branch, lines 496-596

OriginalName(rec, fallback) ==
    IF rec.original_filename # <<>> THEN rec.original_filename ELSE fallback

SafeName(id, original_name) == id \o <<"_">> \o original_name

\* shutil.copy2 into the staging directory raises when the source cannot be
\* read or when the destination's parent directory does not exist, which is
\* the case whenever the name holds a path separator.
CopyRaises(name, safe_name, bad) == name \in bad \/ (\E i \in 1..Len(safe_name) : safe_name[i] = "/")

Resolved(recs, first) == SelectSeq(recs, LAMBDA x : first[x.id] # NoPath)

ZipAttachment(att) ==
    LET original_name == OriginalName(att, att.name)
    IN  [id |-> att.id, original_name |-> original_name,
         file_path |-> <<"attachments/">> \o SafeName(att.id, original_name),
         size_display |-> att.size]

ZipImage(img) ==
    LET original_name == OriginalName(img, img.filename)
    IN  [id |-> img.id, original_name |-> original_name,
         file_path |-> <<"images/">> \o SafeName(img.id, original_name),
         url |-> img.url]

ZipPost(post, include_files, firstU, firstI) ==
    [id |-> post.id, title |-> post.title, content_html |-> post.content,
     views |-> post.views,
     attachments |-> IF include_files = "files"
                     THEN MapSeq(Resolved(post.attachments, firstU), ZipAttachment)
                     ELSE <<>>,
     images |-> IF include_files = "files"
                THEN MapSeq(Resolved(PostImages(post), firstI), ZipImage)
                ELSE <<>>]

\* Whether some copy of the export raises.
ZipRaises(include_files, firstU, firstI, bad) ==
    /\ include_files = "files"
    /\ \E p \in get_all_posts :
          \/ \E i \in 1..Len(p.attachments) :
                LET a == p.attachments[i]
                IN  /\ firstU[a.id] # NoPath
                    /\ CopyRaises(firstU[a.id], ZipAttachment(a).file_path, bad)
          \/ \E i \in 1..Len(PostImages(p)) :
                LET g == PostImages(p)[i]
                IN  /\ firstI[g.id] # NoPath
                    /\ CopyRaises(firstI[g.id], ZipImage(g).file_path, bad)

Paths(items) == {items[i].file_path : i \in 1..Len(items)}

\* The archive of lines 586-591: every file under the staging directory.
ArchiveNames(entries) ==
    {<<"posts.json">>} \cup UNION {Paths(entries[i].attachments) \cup Paths(entries[i].images)
                                     : i \in DOMAIN entries}

\* Runs lines 498-592 inside the TemporaryDirectory block; the zip branch
\* never reads base_url.
ExportZipBuild(r, include_files, base_url, firstU, firstI, bad) ==
    /\ Accept(r)
    /\ pc' = [pc EXCEPT ![r] = "z_built"]
    /\ loc' = [loc EXCEPT ![r] =
         IF ZipRaises(include_files, firstU, firstI, bad)
         THEN [h |-> "export_zip", include_files |-> include_files,
               base_url |-> base_url, raised |-> TRUE, temp_dir |-> TRUE]
         ELSE LET entries == [i \in DOMAIN posts |->
                                 ZipPost(posts[i], include_files, firstU, firstI)]
              IN  [h |-> "export_zip", include_files |-> include_files,
                   base_url |-> base_url, raised |-> FALSE, temp_dir |-> TRUE,
                   posts_json |-> ExportEnvelope(include_files, entries),
                   archive |-> ArchiveNames(entries)]]
    /\ UNCHANGED <<posts, uploads, images, es_client, esUp, esIndex, response, served, creates>>

\* Leaving the with-block (by return or by exception) removes temp_dir and
\* everything in it; an exception becomes a 500 response.
ExportZipExit(r) ==
    /\ pc[r] = "z_built"
    /\ Runnable(r)
    /\ IF loc[r].raised
       THEN /\ response' = [op |-> "export", format |-> "zip", status |-> 500,
                            include_files |-> loc[r].include_files]
            /\ Finish(r)
       ELSE /\ pc' = [pc EXCEPT ![r] = "z_send"]
            /\ loc' = [loc EXCEPT ![r].temp_dir = FALSE]
            /\ UNCHANGED response
    /\ UNCHANGED <<posts, uploads, images, es_client, esUp, esIndex, served, creates>>

\* The framework sends the returned FileResponse: it stats the path first
\* and fails when the file is not there.
ExportZipSend(r) ==
    /\ pc[r] = "z_send"
    /\ Runnable(r)
    /\ response' = IF loc[r].temp_dir
                   THEN [op |-> "export", format |-> "zip", status |-> 200,
                         include_files |-> loc[r].include_files,
                         body |-> loc[r].posts_json, archive |-> loc[r].archive]
                   ELSE [op |-> "export", format |-> "zip", status |-> 500,
                         include_files |-> loc[r].include_files]
    /\ Finish(r)
    /\ UNCHANGED <<posts, uploads, images, es_client, esUp, esIndex, served, creates>>

-----------------------------------------------------------------------------
\* The sanitizer applied to a file name (lines 228 and 272 call it).

Filenames ==
    {Pad(n) \o t : n \in {0, MaxStem - 1, MaxStem, MaxStem + 1},
                   t \in SeqsUpTo(NameChars, MaxName)}

CleanFilename(r) ==
    /\ pc[r] = "n_call"
    /\ response' = [op |-> "clean_filename", filename |-> loc[r].filename,
                    result |-> clean_filename(loc[r].filename)]
    /\ Finish(r)
    /\ UNCHANGED <<posts, uploads, images, es_client, esUp, esIndex, served, creates>>

-----------------------------------------------------------------------------

Init ==
    /\ posts \in {<<>>, [i \in {LegacyPost.id} |-> LegacyPost]}
    /\ uploads = <<>>
    /\ images = <<>>
    /\ esUp \in BOOLEAN
    /\ es_client = get_es_client("none", esUp)
    /\ esIndex = <<>>
    /\ pc = [r \in ReqIds |-> "idle"]
    /\ loc = [r \in ReqIds |-> NoLocals]
    /\ response = NoResponse
    /\ served = [i \in PostIds |-> 0]
    /\ creates = 0

\* Requests that touch only the post repository and the search engine.
GetPost ==
    \/ \E r \in ReqIds, post_id \in PostIds : GetLoad(r, post_id)
    \/ \E r \in ReqIds : GetIncrement(r)
    \/ \E r \in ReqIds : GetSave(r)

CreateTailSteps ==
    \/ \E r \in ReqIds : CreateSave(r)
    \/ \E r \in ReqIds : CreateIndex(r)
    \/ \E r \in ReqIds : CreateRespond(r)

ExportJson(levels, bases) ==
    \E include_files \in levels, base_url \in bases,
       firstU \in FirstMatches(uploads, FileIds), firstI \in FirstMatches(images, ImageIds),
       bad \in BadBlobs :
         export_json(include_files, base_url, firstU, firstI, bad)

ExportZip(levels, bases) ==
    \/ \E r \in ReqIds, include_files \in levels, base_url \in bases,
          firstU \in FirstMatches(uploads, FileIds), firstI \in FirstMatches(images, ImageIds),
          bad \in BadBlobs :
            ExportZipBuild(r, include_files, base_url, firstU, firstI, bad)
    \/ \E r \in ReqIds : ExportZipExit(r)
    \/ \E r \in ReqIds : ExportZipSend(r)

\* Posts without uploads, and the operations on the post repository.
Next ==
    \/ EsToggle
    \/ GetPost
    \/ \E r \in ReqIds, post_id \in PostIds, text \in Texts :
            CreateBegin(r, MaxCreates, post_id, text, <<>>, <<>>)
    \/ CreateTailSteps
    \/ get_posts
    \/ \E q \in Queries : search_posts(q)
    \/ \E file_id \in FileIds : download_attachment(file_id)
    \/ ExportJson(IncludeLevels, {<<>>})

\* create-post with uploads: the text is fixed, the uploads vary.
UploadTexts == {t \in Texts : t.title = <<"B", "u">>}

CreateWithUploads(outcomes) ==
    \/ \E r \in ReqIds, post_id \in PostIds, text \in UploadTexts,
          files \in SeqsUpTo(UploadItems, MaxFiles), imgs \in SeqsUpTo(ImageItems, MaxImages) :
            CreateBegin(r, MaxBlobCreates, post_id, text, files, imgs)
    \/ \E r \in ReqIds, file_id \in FileIds, outcome \in outcomes :
            CreateStoreFile(r, file_id, outcome)
    \/ \E r \in ReqIds, image_id \in ImageIds, outcome \in outcomes :
            CreateStoreImage(r, image_id, outcome)
    \/ CreateTailSteps

\* Posts with uploads, the blob directories and the search engine.
NextBlobs ==
    \/ EsToggle
    \/ CreateWithUploads(WriteOutcomes)
    \/ \E image \in ImageItems, image_id \in ImageIds, outcome \in WriteOutcomes :
            upload_image(image, image_id, outcome)
    \/ \E file_id \in FileIds : download_attachment(file_id)

\* Posts with uploads and the exports of them.
NextExport ==
    \/ CreateWithUploads({"ok"})
    \/ ExportJson(IncludeLevels, {<<>>})
    \/ ExportZip(IncludeLevels, {<<>>})

\* Posts with uploads and the exports of them under a base URL.
NextLinks ==
    \/ CreateWithUploads({"ok"})
    \/ ExportJson({"metadata"}, BaseUrls)
    \/ ExportZip({"files"}, BaseUrls)

\* Posts with uploads, read by id and downloaded.
NextLookups ==
    \/ CreateWithUploads({"ok"})
    \/ GetPost
    \/ \E file_id \in FileIds : download_attachment(file_id)

\* Posts with at most one attachment, and every operation that reads the
\* post repository.
PlainFiles == {f \in UploadItems : f.filename = <<"a", ".", "t">>}

NextReads ==
    \/ \E r \in ReqIds, post_id \in PostIds, text \in UploadTexts,
          files \in SeqsUpTo(PlainFiles, 1) :
            CreateBegin(r, MaxBlobCreates, post_id, text, files, <<>>)
    \/ \E r \in ReqIds, file_id \in FileIds : CreateStoreFile(r, file_id, "ok")
    \/ CreateTailSteps
    \/ GetPost
    \/ get_posts
    \/ \E q \in Queries : search_posts(q)
    \/ \E file_id \in FileIds : download_attachment(file_id)
    \/ ExportJson(IncludeLevels, {<<>>})
    \/ ExportZip(IncludeLevels, {<<>>})

\* One call of the sanitizer, its argument drawn from Filenames.
InitNames ==
    /\ posts = <<>>
    /\ uploads = <<>>
    /\ images = <<>>
    /\ esUp \in BOOLEAN
    /\ es_client = get_es_client("none", esUp)
    /\ esIndex = <<>>
    /\ \E filename \in Filenames :
          /\ pc = [r \in ReqIds |-> IF r = 1 THEN "n_call" ELSE "idle"]
          /\ loc = [r \in ReqIds |->
                      IF r = 1 THEN [h |-> "clean_filename", filename |-> filename]
                      ELSE NoLocals]
    /\ response = NoResponse
    /\ served = [i \in PostIds |-> 0]
    /\ creates = 0

NextNames == \E r \in ReqIds : CleanFilename(r)

Spec == Init /\ [][Next]_vars

SpecBlobs == Init /\ [][NextBlobs]_vars

SpecExport == Init /\ [][NextExport]_vars

SpecLinks == Init /\ [][NextLinks]_vars

SpecNames == InitNames /\ [][NextNames]_vars

SpecLookups == Init /\ [][NextLookups]_vars

SpecReads == Init /\ [][NextReads]_vars

-----------------------------------------------------------------------------
\* Claims about the views counter (specification Spec).

\* C1: a create-post persists views = 0, and each successful get-post-by-id
\* raises the persisted views of that post by exactly 1 and reports the new
\* value, which is the number of successful retrievals since the creation.
C1_EachGetAddsOne ==
    [][\A r \in ReqIds :
          /\ (pc[r] = "g_incremented" /\ pc'[r] = "idle") =>
                LET id == loc[r].post_id
                IN  /\ posts'[id].views = posts[id].views + 1
                    /\ response'.op = "get_post" /\ response'.status = 200
                    /\ response'.body.views = posts'[id].views
                    /\ response'.body.views = served'[id]
          /\ (pc[r] = "c_save" /\ pc'[r] # "c_save") =>
                posts'[loc[r].post_id].views = 0]_vars

C1_SecondGetReportsTwo ==
    /\ response.op = "get_post" /\ response.status = 200
    /\ response.body.views = 2
    /\ posts[response.id].views = 2

\* C2 as stated: the load, increment and save of one get-post-by-id can be
\* interleaved with another request's: while one request holds a loaded,
\* not yet saved post, a second get-post-by-id for that post can load it.
C2_GetStepsInterleave ==
    \A r1 \in ReqIds :
        pc[r1] = "g_loaded" =>
            \E r2 \in ReqIds \ {r1} : ENABLED GetLoad(r2, loc[r1].post_id)

\* C2 amended: no increment is lost; the persisted views of a post is the
\* number of get-post-by-id requests completed for it since its creation.
C2_NoLostUpdate ==
    \A id \in DOMAIN posts : posts[id].views = served[id]

C2_TwoGetsServed ==
    \E id \in DOMAIN posts : served[id] = 2 /\ posts[id].views = 2

\* C3 as stated: no step lowers the persisted views of a stored post.
C3_ViewsNeverDecrease ==
    [][\A id \in DOMAIN posts : posts'[id].views >= posts[id].views]_vars

\* C3 amended: the persisted views of a stored post is lowered only by a
\* create-post that generated the same identifier, which resets it to 0.
C3_ViewsLoweredOnlyByOverwrite ==
    [][\A id \in DOMAIN posts :
          \/ posts'[id].views >= posts[id].views
          \/ /\ posts'[id].views = 0
             /\ \E r \in ReqIds : /\ pc[r] = "c_save" /\ pc'[r] # "c_save"
                                  /\ loc[r].post_id = id]_vars

C3_OverwriteOfViewedPost ==
    \E r \in ReqIds :
        /\ pc[r] = "c_save"
        /\ loc[r].post_id \in DOMAIN posts
        /\ posts[loc[r].post_id].views > 0

-----------------------------------------------------------------------------
\* Claims about blobs and create-post (specification SpecBlobs).

BlobsOf(recs, dir) == \A i \in 1..Len(recs) : Cardinality(Matches(dir, recs[i].id)) = 1

\* C4: every attachment identifier of a persisted post is the prefix of
\* exactly one file of data/uploads, and every image identifier of a
\* persisted post the prefix of exactly one file of data/images.
C4_EachIdMatchesOneBlob ==
    \A id \in DOMAIN posts :
        /\ BlobsOf(posts[id].attachments, uploads)
        /\ BlobsOf(PostImages(posts[id]), images)

HasBlobs(recs, dir) == \A i \in 1..Len(recs) : Matches(dir, recs[i].id) # {}

\* C8: create-post saves the record only when every accepted blob is
\* written, mirrors it only when it is saved, and answers 200 with the
\* persisted record after the mirror step, whatever the search engine did;
\* nothing but the mirror step of a create-post changes the index.
C8_BlobsThenSaveThenMirror ==
    [][/\ \A r \in ReqIds :
            /\ (pc[r] = "c_save" /\ pc'[r] # "c_save") =>
                  /\ HasBlobs(loc[r].attachments, uploads)
                  /\ HasBlobs(loc[r].uploaded_images, images)
                  /\ posts'[loc[r].post_id] = PostData(loc[r])
                  /\ esIndex' = esIndex
                  /\ pc'[r] = "c_index"
            /\ (pc[r] = "c_index" /\ pc'[r] # "c_index") =>
                  /\ Stored(loc[r].post_id)
                  /\ posts[loc[r].post_id] = PostData(loc[r])
                  /\ posts' = posts
                  /\ pc'[r] = "c_respond"
            /\ (pc[r] = "c_respond" /\ pc'[r] # "c_respond") =>
                  /\ response'.op = "create_post" /\ response'.status = 200
                  /\ response'.body = posts[loc[r].post_id]
       /\ esIndex' # esIndex => \E r \in ReqIds : pc[r] = "c_index"]_vars

\* A create-post with an attachment about to answer, its mirror step having
\* met a search engine that is down behind a cached client.
C8_RespondsAfterFailedMirror ==
    \E r \in ReqIds :
        /\ pc[r] = "c_respond"
        /\ es_client = "client" /\ ~esUp
        /\ loc[r].post_id \notin DOMAIN esIndex
        /\ loc[r].attachments # <<>>
        /\ posts[loc[r].post_id] = PostData(loc[r])

-----------------------------------------------------------------------------
\* A claim about search (specification Spec).

\* C7: a search answered while the search engine is unavailable (no client,
\* or a client whose query fails) returns the fallback scan.
C7_SearchFallsBackWhenSinkDown ==
    [][(response' # response /\ response'.op = "search" /\ ~response'.sink) =>
          /\ response'.status = 200
          /\ response'.body = FallbackScan(response'.q)]_vars

-----------------------------------------------------------------------------
\* Claims about export (specification SpecExport).

ExportedJson == response' # response /\ response'.op = "export" /\ response'.format = "json"

ZipBuilt(r) == pc[r] = "idle" /\ pc'[r] = "z_built"

\* C5: a zip response is sent while the temporary directory, and the
\* archive in it, still exist.
C5_ArchiveExistsWhenSent ==
    \A r \in ReqIds : pc[r] = "z_send" => loc[r].temp_dir

\* C6: no create-post and no export is aborted by the failure of one item:
\* create-post answers 200 with the persisted record, a json export answers
\* 200 with an entry for every stored post, and the zip branch builds its
\* posts.json with an entry for every stored post without raising.
C6_ItemFailureNeverAborts ==
    [][/\ \A r \in ReqIds :
            /\ (pc[r] = "c_respond" /\ pc'[r] # "c_respond") =>
                  /\ response'.status = 200
                  /\ response'.body = posts[loc[r].post_id]
            /\ ZipBuilt(r) =>
                  /\ ~loc'[r].raised
                  /\ DOMAIN loc'[r].posts_json.posts = DOMAIN posts
       /\ ExportedJson =>
            /\ response'.status = 200
            /\ DOMAIN response'.body.posts = DOMAIN posts]_vars

\* An exported item list that has one entry per record, each with a path,
\* and with the blob's MIME type and size when the path is resolved.
ItemsCover(items, recs, dir) ==
    /\ Len(items) = Len(recs)
    /\ \A i \in 1..Len(items) :
          /\ items[i].id = recs[i].id
          /\ "path" \in DOMAIN items[i]
          /\ IF Matches(dir, recs[i].id) = {}
             THEN items[i].path = NoPath
             ELSE /\ items[i].path # NoPath
                  /\ "mime_type" \in DOMAIN items[i]
                  /\ "size_bytes" \in DOMAIN items[i]
                  /\ \E f \in Matches(dir, recs[i].id) :
                        /\ items[i].size_bytes = dir[f]
                        /\ items[i].mime_type = MimeType(f)

EntriesCover(entries) ==
    /\ DOMAIN entries = DOMAIN posts
    /\ \A id \in DOMAIN posts :
          /\ ItemsCover(entries[id].attachments, posts[id].attachments, uploads)
          /\ ItemsCover(entries[id].images, PostImages(posts[id]), images)

\* C9: with includeFiles metadata or files, a json export and the posts.json
\* of a zip export hold one entry per attachment and image record.
C9_EveryRecordHasAnEntry ==
    [][/\ (ExportedJson /\ response'.include_files # "none") =>
            EntriesCover(response'.body.posts)
       /\ \A r \in ReqIds :
            (ZipBuilt(r) /\ loc'[r].include_files # "none" /\ ~loc'[r].raised) =>
                EntriesCover(loc'[r].posts_json.posts)]_vars

ExpectedFiles(folder, recs, dir) ==
    {folder \o recs[i].id \o <<"_">> \o recs[i].original_filename :
        i \in {k \in 1..Len(recs) : Matches(dir, recs[k].id) # {}}}

ExpectedArchive ==
    {<<"posts.json">>}
        \cup UNION {ExpectedFiles(<<"attachments/">>, posts[id].attachments, uploads)
                        : id \in DOMAIN posts}
        \cup UNION {ExpectedFiles(<<"images/">>, PostImages(posts[id]), images)
                        : id \in DOMAIN posts}

\* C10: a zip export with includeFiles = files builds an archive holding
\* posts.json and one file per record whose identifier resolves, at
\* attachments/<id>_<originalName> or images/<id>_<originalName>.
C10_ArchiveHoldsEveryResolvedItem ==
    [][\A r \in ReqIds :
          (ZipBuilt(r) /\ loc'[r].include_files = "files") =>
              /\ ~loc'[r].raised
              /\ loc'[r].archive = ExpectedArchive]_vars

-----------------------------------------------------------------------------
\* A claim about the links of an export (specification SpecLinks).

\* The base URL without its trailing slashes, followed by the relative link;
\* the relative link alone when no base URL is given.
ExpectedLink(rel, base) ==
    LET keep == {k \in 0..Len(base) : k = 0 \/ base[k] # "/"}
        n == CHOOSE k \in keep : \A j \in keep : j <= k
    IN  SubSeq(base, 1, n) \o rel

\* The stored record an exported item was made from.
RecordOf(recs, item) == CHOOSE x \in {recs[i] : i \in 1..Len(recs)} : x.id = item.id

LinksOf(entries, base) ==
    \A id \in DOMAIN entries :
        /\ \A i \in 1..Len(entries[id].attachments) :
              LET item == entries[id].attachments[i]
              IN  "download_url" \in DOMAIN item =>
                     item.download_url =
                        ExpectedLink(RecordOf(posts[id].attachments, item).downloadUrl, base)
        /\ \A i \in 1..Len(entries[id].images) :
              LET item == entries[id].images[i]
              IN  "url" \in DOMAIN item =>
                     item.url = ExpectedLink(RecordOf(PostImages(posts[id]), item).url, base)

\* C11: every link of a json export and of the posts.json of a zip export is
\* the stored relative link, prefixed by the base URL without its trailing
\* slash when a base URL is given.
C11_LinksCarryBaseUrl ==
    [][/\ ExportedJson => LinksOf(response'.body.posts, response'.base_url)
       /\ \A r \in ReqIds :
            (ZipBuilt(r) /\ ~loc'[r].raised) =>
                LinksOf(loc'[r].posts_json.posts, loc'[r].base_url)]_vars

\* The json half of C11 alone.
JsonLinksCarryBaseUrl ==
    [][ExportedJson => LinksOf(response'.body.posts, response'.base_url)]_vars

-----------------------------------------------------------------------------
\* A claim about the sanitizer (specification SpecNames).

\* The model's characters that lie in [A-Za-z0-9._-].
InClass(c) == c \notin {"K", "/", " "}

\* The result without the argument's extension.
StemOf(result, filename) == SubSeq(result, 1, Len(result) - Len(SplitExt(filename)))

\* C12: the sanitizer's result is a stem followed by the argument's
\* extension unchanged; the stem is not empty, has at most 50 characters,
\* all of them in [A-Za-z0-9._-], and is "image" when no character of the
\* argument's stem is in that class.
C12_StemCleanExtensionKept ==
    response.op = "clean_filename" =>
        LET filename == response.filename
            result == response.result
            ext == SplitExt(filename)
            stem == StemOf(result, filename)
        IN  /\ Len(result) >= Len(ext)
            /\ result = stem \o ext
            /\ stem # <<>>
            /\ Len(stem) <= 50
            /\ \A i \in 1..Len(stem) : InClass(stem[i])
            /\ (\A i \in 1..Len(SplitRoot(filename)) : ~InClass(SplitRoot(filename)[i]))
                   => stem = <<"i", "m", "a", "g", "e">>

\* A name whose stem has more than 50 characters of the class, and whose
\* extension holds a character outside it, has been sanitized.
C12_LongStemCut ==
    /\ response.op = "clean_filename"
    /\ Cardinality({i \in 1..Len(SplitRoot(response.filename)) :
                       InClass(SplitRoot(response.filename)[i])}) > 50
    /\ \E i \in 1..Len(SplitExt(response.filename)) : ~InClass(SplitExt(response.filename)[i])
    /\ Len(StemOf(response.result, response.filename)) = 50

-----------------------------------------------------------------------------
\* Claims about lookups (specification SpecLookups).

Answered(op) == response' # response /\ response'.op = op

\* C13: a get-post-by-id answers 404 exactly when no record is stored under
\* the identifier, a download answers 404 exactly when no file of
\* data/uploads begins with the identifier, and a step that answers 404
\* changes no post record and no blob.
C13_NotFoundChangesNothing ==
    [][/\ Answered("get_post") =>
            /\ (response'.status = 404) <=> (response'.id \notin DOMAIN posts)
            /\ response'.status = 404 =>
                  (posts' = posts /\ uploads' = uploads /\ images' = images)
       /\ Answered("download") =>
            /\ (response'.status = 404) <=>
                  ~(\E f \in DOMAIN uploads : StartsWith(f, response'.id))
            /\ response'.status = 404 =>
                  (posts' = posts /\ uploads' = uploads /\ images' = images)]_vars

\* A download answered 404 after a create-post with an attachment has
\* answered: a post and a blob under another identifier are stored.
C13_MissWithBlobsStored ==
    /\ response.op = "download" /\ response.status = 404
    /\ \A r \in ReqIds : pc[r] = "idle"
    /\ uploads # <<>>
    /\ \E id \in DOMAIN posts : posts[id].attachments # <<>>

-----------------------------------------------------------------------------
\* A claim about the post repository (specification SpecReads).

ReadOps == {"get_posts", "search", "download", "export"}

SavingGet(r, id) == pc[r] = "g_incremented" /\ loc[r].post_id = id

SavingCreate(r, id) == pc[r] = "c_save" /\ loc[r].post_id = id

\* C14: a step of a list, search, download or export request changes no
\* post record; a stored record is never removed, and it changes only in
\* the save of a get-post-by-id for its identifier (which changes nothing
\* but views when the record has an uploaded_images field) or in the save
\* of a create-post with its identifier; a record appears only in the save
\* of a create-post.
C14_ReadsLeaveRecords ==
    [][/\ \A id \in DOMAIN posts :
            /\ id \in DOMAIN posts'
            /\ posts'[id] # posts[id] =>
                  \/ \E r \in ReqIds :
                        /\ SavingGet(r, id)
                        /\ "uploaded_images" \in DOMAIN posts[id] =>
                              posts'[id] = [posts[id] EXCEPT !.views = posts'[id].views]
                  \/ \E r \in ReqIds : SavingCreate(r, id)
       /\ \A id \in (DOMAIN posts') \ (DOMAIN posts) : \E r \in ReqIds : SavingCreate(r, id)
       /\ (\/ \E op \in ReadOps : Answered(op)
           \/ \E r \in ReqIds : pc[r] \in {"z_built", "z_send"} \/ pc'[r] = "z_built")
             => posts' = posts]_vars

\* A listing answered with the uploaded_images field defaulted, after a
\* create-post with an attachment has answered, while the stored record
\* of the older post still has no such field.
C14_ListedWithoutRewrite ==
    /\ response.op = "get_posts"
    /\ response.body = {WithImagesField(p) : p \in get_all_posts}
    /\ \A r \in ReqIds : pc[r] = "idle"
    /\ \E id \in DOMAIN posts : "uploaded_images" \notin DOMAIN posts[id]
    /\ \E id \in DOMAIN posts : posts[id].attachments # <<>>

====
